---- MODULE Spec2Model ----
(***************************************************************************)
(* Model of jules-scratch/verification/verify_mui_ui.py.                   *)
(*                                                                         *)
(*   3  def run():                                                         *)
(*   4      with sync_playwright() as p:                                   *)
(*   5          browser = p.chromium.launch(headless=True)                 *)
(*   6          page = browser.new_page()                                  *)
(*   7          page.goto("http://localhost:8080/")                        *)
(*   8          page.wait_for_selector("h1")                               *)
(*   9          page.screenshot(path="jules-scratch/.../verification.png") *)
(*  10          browser.close()                                            *)
(*  12  if __name__ == "__main__":                                         *)
(*  13      run()                                                          *)
(*                                                                         *)
(* Every call of the script either returns or raises.  Which of the two    *)
(* happens is decided by the world outside the script (the installed       *)
(* browser, the server at localhost:8080, the file system); the record     *)
(* env fixes that world for one run.  The script has no try/except, so a   *)
(* raise leaves the with-block through the context manager's exit and      *)
(* then leaves the process with an uncaught exception.                     *)
(***************************************************************************)
EXTENDS Integers, Sequences, FiniteSets, TLC

VARIABLES
    pc,           \* the statement the interpreter is about to execute
    env,          \* the outside world of the current run
    runs,         \* number of times the script has been started
    driver,       \* the automation driver of sync_playwright(): "none", "running", "stopped"
    browser,      \* the browser subprocess: "none", "running", "closed"
    page,         \* TRUE once browser.new_page() returned a page
    error,        \* the call whose exception is propagating, or "none"
    exit_status,  \* process exit status of the current run; -1 while it has none
    fs,           \* the output files: a function from path to file content
    shot,         \* the image bytes the browser captured in this run, <<>> if none
    trace,        \* the calls attempted in this run, in order
    succeeded,    \* the calls that returned normally in this run
    requests,     \* the navigation requests issued in this run
    closeCalled,  \* browser.close() was called in this run
    ctxExited,    \* the with-statement's exit ran in this run
    prev          \* exit status and files observed at the start of this run

vars == <<pc, env, runs, driver, browser, page, error, exit_status, fs, shot,
          trace, succeeded, requests, closeCalled, ctxExited, prev>>

(***************************************************************************)
(* Bounds of the model.                                                    *)
(***************************************************************************)
MaxRuns == 2
NumImages == 2

(***************************************************************************)
(* Literals of the script.                                                 *)
(***************************************************************************)
TargetUrl == "http://localhost:8080/"
ScreenshotPathPerRun ==
    IF runs <= 1 THEN "jules-scratch/verification/verification.png"
                 ELSE "jules-scratch/verification/verification-2.png"
ScreenshotPath == "jules-scratch/verification/verification.png"

\* The calls of run(), in program order.
Chain == <<"sync_playwright", "launch", "new_page", "goto",
           "wait_for_selector", "screenshot", "close">>

\* Rendered pages are non-empty byte strings; <<>> is the empty content.
Images == { <<i>> : i \in 1..NumImages }

\* The world a run meets: whether each call of the script can succeed.
Envs == [ startOk   : BOOLEAN,   \* the automation driver starts
          launchOk  : BOOLEAN,   \* the browser binary launches
          pageOk    : BOOLEAN,   \* a page can be opened
          serverUp  : BOOLEAN,   \* a server answers at TargetUrl
          h1Visible : BOOLEAN,   \* an h1 becomes visible within the default timeout
          writable  : BOOLEAN,   \* the screenshot can be written to its path
          closeOk   : BOOLEAN ]  \* browser.close() returns normally

NoFiles == [ p \in {} |-> <<>> ]

\* Mutant: screenshot() is called without path=, so no file is written.
WriteFileDropped(files, path, bytes) == files

\* open(path, "wb") followed by write: creates the file or replaces its content.
WriteFile(files, path, bytes) ==
    [ p \in (DOMAIN files) \cup {path} |-> IF p = path THEN bytes ELSE files[p] ]

(***************************************************************************)
(* Exception propagation.  The script catches nothing: an exception raised *)
(* inside the with-block goes to the context manager's exit; one raised by *)
(* sync_playwright() itself (line 4, before the block is entered) leaves   *)
(* run() at once.                                                          *)
(***************************************************************************)
NextPc(step) ==
    CASE step = "sync_playwright"   -> "launch"
      [] step = "launch"            -> "new_page"
      [] step = "new_page"          -> "goto"
      [] step = "goto"              -> "wait_for_selector"
      [] step = "wait_for_selector" -> "screenshot"
      [] step = "screenshot"        -> "close"
      [] step = "close"             -> "exit_ctx"

\* Mutant: the failing call is wrapped in try/except: pass.
OnFailSwallow(step) == [ pc |-> NextPc(step), error |-> "none" ]

\* Mutant: the failing call is retried in a loop.
OnFailRetry(step) == [ pc |-> step, error |-> "none" ]

\* Mutant: browser.close() sits in a finally clause.
OnFailFinallyClose(step) ==
    [ pc    |-> IF step \in {"sync_playwright", "launch", "close"}
                  THEN (IF step = "sync_playwright" THEN "terminate" ELSE "exit_ctx")
                  ELSE "close",
      error |-> step ]

OnFail(step) ==
    [ pc    |-> IF step = "sync_playwright" THEN "terminate" ELSE "exit_ctx",
      error |-> step ]

\* Mutant: the top level swallows the exception (try: run() except: pass).
ExitStatusAlwaysZero(err) == 0

\* The interpreter's exit status: 0 on normal return, 1 on an uncaught exception.
ExitStatus(err) == IF err = "none" THEN 0 ELSE 1

TypeOK ==
    /\ pc \in {"idle", "sync_playwright", "launch", "new_page", "goto",
               "wait_for_selector", "screenshot", "close", "exit_ctx",
               "terminate", "done"}
    /\ env \in Envs
    /\ runs \in 0..MaxRuns
    /\ driver \in {"none", "running", "stopped"}
    /\ browser \in {"none", "running", "closed"}
    /\ page \in BOOLEAN
    /\ error \in {"none"} \cup {Chain[i] : i \in DOMAIN Chain}
    /\ exit_status \in {-1, 0, 1}
    /\ shot \in Images \cup {<<>>}
    /\ closeCalled \in BOOLEAN
    /\ ctxExited \in BOOLEAN

Init ==
    /\ pc = "idle"
    /\ env \in Envs
    /\ runs = 0
    /\ driver = "none"
    /\ browser = "none"
    /\ page = FALSE
    /\ error = "none"
    /\ exit_status = -1
    /\ fs = NoFiles
    /\ shot = <<>>
    /\ trace = <<>>
    /\ succeeded = {}
    /\ requests = <<>>
    /\ closeCalled = FALSE
    /\ ctxExited = FALSE
    /\ prev = [ exit |-> -1, fs |-> NoFiles ]

(***************************************************************************)
(* Lines 12-13: the script is started as a fresh process.  Nothing of the  *)
(* previous process survives except the files it left.                     *)
(***************************************************************************)
Invoke ==
    /\ pc \in {"idle", "done"}
    /\ runs < MaxRuns
    /\ runs' = runs + 1
    /\ env' \in Envs
    /\ pc' = "sync_playwright"
    /\ driver' = "none"
    /\ browser' = "none"
    /\ page' = FALSE
    /\ error' = "none"
    /\ prev' = [ exit |-> exit_status, fs |-> fs ]
    /\ exit_status' = -1
    /\ shot' = <<>>
    /\ trace' = <<>>
    /\ succeeded' = {}
    /\ requests' = <<>>
    /\ closeCalled' = FALSE
    /\ ctxExited' = FALSE
    /\ UNCHANGED fs

\* Line 4: sync_playwright() and the entry of the with-block.
EnterContext ==
    /\ pc = "sync_playwright"
    /\ trace' = Append(trace, "sync_playwright")
    /\ IF env.startOk
         THEN /\ driver' = "running"
              /\ succeeded' = succeeded \cup {"sync_playwright"}
              /\ pc' = NextPc("sync_playwright")
              /\ error' = error
         ELSE /\ driver' = driver
              /\ succeeded' = succeeded
              /\ pc' = OnFail("sync_playwright").pc
              /\ error' = OnFail("sync_playwright").error
    /\ UNCHANGED <<env, runs, browser, page, exit_status, fs, shot, requests,
                   closeCalled, ctxExited, prev>>

\* Line 5: browser = p.chromium.launch(headless=True).
Launch ==
    /\ pc = "launch"
    /\ trace' = Append(trace, "launch")
    /\ IF env.launchOk
         THEN /\ browser' = "running"
              /\ succeeded' = succeeded \cup {"launch"}
              /\ pc' = NextPc("launch")
              /\ error' = error
         ELSE /\ browser' = browser
              /\ succeeded' = succeeded
              /\ pc' = OnFail("launch").pc
              /\ error' = OnFail("launch").error
    /\ UNCHANGED <<env, runs, driver, page, exit_status, fs, shot, requests,
                   closeCalled, ctxExited, prev>>

\* Line 6: page = browser.new_page().
NewPage ==
    /\ pc = "new_page"
    /\ trace' = Append(trace, "new_page")
    /\ IF env.pageOk
         THEN /\ page' = TRUE
              /\ succeeded' = succeeded \cup {"new_page"}
              /\ pc' = NextPc("new_page")
              /\ error' = error
         ELSE /\ page' = page
              /\ succeeded' = succeeded
              /\ pc' = OnFail("new_page").pc
              /\ error' = OnFail("new_page").error
    /\ UNCHANGED <<env, runs, driver, browser, exit_status, fs, shot, requests,
                   closeCalled, ctxExited, prev>>

\* Line 7: page.goto("http://localhost:8080/").
Goto ==
    /\ pc = "goto"
    /\ trace' = Append(trace, "goto")
    /\ requests' = Append(requests, TargetUrl)
    /\ IF env.serverUp
         THEN /\ succeeded' = succeeded \cup {"goto"}
              /\ pc' = NextPc("goto")
              /\ error' = error
         ELSE /\ succeeded' = succeeded
              /\ pc' = OnFail("goto").pc
              /\ error' = OnFail("goto").error
    /\ UNCHANGED <<env, runs, driver, browser, page, exit_status, fs, shot,
                   closeCalled, ctxExited, prev>>

\* Line 8: page.wait_for_selector("h1").
WaitForSelector ==
    /\ pc = "wait_for_selector"
    /\ trace' = Append(trace, "wait_for_selector")
    /\ IF env.h1Visible
         THEN /\ succeeded' = succeeded \cup {"wait_for_selector"}
              /\ pc' = NextPc("wait_for_selector")
              /\ error' = error
         ELSE /\ succeeded' = succeeded
              /\ pc' = OnFail("wait_for_selector").pc
              /\ error' = OnFail("wait_for_selector").error
    /\ UNCHANGED <<env, runs, driver, browser, page, exit_status, fs, shot,
                   requests, closeCalled, ctxExited, prev>>

(***************************************************************************)
(* Line 9: page.screenshot(path=...).  The browser renders the page to     *)
(* image bytes, which are then written to the path.  A failing write       *)
(* either leaves the files alone (the file cannot be opened) or leaves a   *)
(* truncated file (it was opened, the write failed).                       *)
(***************************************************************************)
Screenshot ==
    /\ pc = "screenshot"
    /\ trace' = Append(trace, "screenshot")
    /\ \E img \in Images :
         /\ shot' = img
         /\ IF env.writable
              THEN /\ fs' = WriteFile(fs, ScreenshotPath, img)
                   /\ succeeded' = succeeded \cup {"screenshot"}
                   /\ pc' = NextPc("screenshot")
                   /\ error' = error
              ELSE /\ fs' \in {fs, WriteFile(fs, ScreenshotPath, <<>>)}
                   /\ succeeded' = succeeded
                   /\ pc' = OnFail("screenshot").pc
                   /\ error' = OnFail("screenshot").error
    /\ UNCHANGED <<env, runs, driver, browser, page, exit_status, requests,
                   closeCalled, ctxExited, prev>>

\* Line 10: browser.close().
Close ==
    /\ pc = "close"
    /\ trace' = Append(trace, "close")
    /\ closeCalled' = TRUE
    /\ IF env.closeOk
         THEN /\ browser' = IF browser = "running" THEN "closed" ELSE browser
              /\ succeeded' = succeeded \cup {"close"}
              /\ pc' = NextPc("close")
              /\ error' = error
         ELSE /\ browser' = browser
              /\ succeeded' = succeeded
              /\ pc' = OnFail("close").pc
              /\ error' = OnFail("close").error
    /\ UNCHANGED <<env, runs, driver, page, exit_status, fs, shot, requests,
                   ctxExited, prev>>

\* Mutant: the driver is started without the with-statement and is stopped
\* only at the end of the block, so an exception skips the release.
ExitContextOnSuccessOnly ==
    /\ pc = "exit_ctx"
    /\ IF error = "none"
         THEN /\ ctxExited' = TRUE
              /\ driver' = "stopped"
              /\ browser' = IF browser = "running" THEN "closed" ELSE browser
         ELSE UNCHANGED <<ctxExited, driver, browser>>
    /\ pc' = "terminate"
    /\ UNCHANGED <<env, runs, page, error, exit_status, fs, shot, trace,
                   succeeded, requests, closeCalled, prev>>

(***************************************************************************)
(* Line 4, leaving the with-block: the context manager's exit runs on      *)
(* normal completion and on an exception alike.  It stops the automation   *)
(* driver, and with it the browser the driver launched; the exception, if  *)
(* any, goes on propagating.                                               *)
(***************************************************************************)
ExitContext ==
    /\ pc = "exit_ctx"
    /\ ctxExited' = TRUE
    /\ driver' = "stopped"
    /\ browser' = IF browser = "running" THEN "closed" ELSE browser
    /\ pc' = "terminate"
    /\ UNCHANGED <<env, runs, page, error, exit_status, fs, shot, trace,
                   succeeded, requests, closeCalled, prev>>

\* Line 13 returns, or the uncaught exception reaches the top level: the
\* process ends.
Terminate ==
    /\ pc = "terminate"
    /\ exit_status' = ExitStatus(error)
    /\ pc' = "done"
    /\ UNCHANGED <<env, runs, driver, browser, page, error, fs, shot, trace,
                   succeeded, requests, closeCalled, ctxExited, prev>>

\* The steps of one run of the script.
RunStep ==
    \/ EnterContext
    \/ Launch
    \/ NewPage
    \/ Goto
    \/ WaitForSelector
    \/ Screenshot
    \/ Close
    \/ ExitContext
    \/ Terminate

Next == Invoke \/ RunStep

Spec == Init /\ [][Next]_vars

\* Every call of the script blocks until it returns or raises (the waits
\* have the library's default timeouts), so a started run always advances.
FairSpec == Spec /\ WF_vars(RunStep)

(***************************************************************************)
(* Vocabulary of the properties.                                           *)
(***************************************************************************)
\* The output path the specification names.
OutputFile == "jules-scratch/verification/verification.png"

Attempted(step) == \E i \in DOMAIN trace : trace[i] = step

\* A call that was made and did not return normally.
Failed(step) == Attempted(step) /\ step \notin succeeded

Count(step) == Cardinality({ i \in DOMAIN trace : trace[i] = step })

IsPrefix(s, t) == Len(s) <= Len(t) /\ \A i \in DOMAIN s : s[i] = t[i]

Steps == { Chain[i] : i \in DOMAIN Chain }

AllOk == /\ env.startOk /\ env.launchOk /\ env.pageOk /\ env.serverUp
         /\ env.h1Visible /\ env.writable /\ env.closeOk

NonEmptyOutput == OutputFile \in DOMAIN fs /\ Len(fs[OutputFile]) > 0

(***************************************************************************)
(* C1.  In every run in which the browser launch succeeded, the browser    *)
(* process has been released when the script has exited, whichever later   *)
(* call failed or whether all succeeded: no terminal state has a browser   *)
(* still running.                                                          *)
(***************************************************************************)
C1_BrowserReleasedAtExit ==
    pc = "done" =>
        /\ browser # "running"
        /\ ("launch" \in succeeded => browser = "closed")

\* A run whose launch succeeded, whose navigation failed, and which never
\* called browser.close(): the browser is released all the same.
C1_Witness ==
    /\ pc = "done"
    /\ "launch" \in succeeded
    /\ Failed("goto")
    /\ ~closeCalled
    /\ browser = "closed"

(***************************************************************************)
(* C2.  The screenshot call is made only after goto and wait_for_selector  *)
(* succeeded; in a run where the server is unreachable or the h1 never     *)
(* becomes visible the script never writes the output file and ends with   *)
(* a non-zero status.                                                      *)
(***************************************************************************)
C2_ScreenshotOnlyAfterWait ==
    /\ Attempted("screenshot") => {"goto", "wait_for_selector"} \subseteq succeeded
    /\ (pc # "idle" /\ (~env.serverUp \/ ~env.h1Visible)) =>
          /\ ~Attempted("screenshot")
          /\ shot = <<>>
          /\ fs = prev.fs
          /\ (pc = "done" => exit_status # 0)

\* The server answers but no h1 ever shows: the wait fails, the run ends
\* with status 1 and there is no output file.
C2_Witness ==
    /\ pc = "done"
    /\ env.serverUp /\ ~env.h1Visible
    /\ Failed("wait_for_selector")
    /\ exit_status = 1
    /\ OutputFile \notin DOMAIN fs

(***************************************************************************)
(* C3.  The exit status is zero exactly when every call (launch, new page, *)
(* navigation, element wait, screenshot, close) succeeded; a failing call  *)
(* always ends the run with a non-zero status and a propagated error.      *)
(***************************************************************************)
C3_ExitStatusZeroIffAllSucceeded ==
    pc = "done" =>
        /\ exit_status = 0 <=>
              {"launch", "new_page", "goto", "wait_for_selector",
               "screenshot", "close"} \subseteq succeeded
        /\ \A step \in Steps : Failed(step) => exit_status # 0 /\ error = step

\* The screenshot could not be written: status 1, the error is the
\* screenshot call's.
C3_Witness ==
    /\ pc = "done"
    /\ Failed("screenshot")
    /\ error = "screenshot"
    /\ exit_status = 1

(***************************************************************************)
(* C4 as stated.  Given a reachable server that renders an h1 within the   *)
(* timeout and a writable output path, the run ends with status zero and   *)
(* a non-empty image file at the output path.                              *)
(***************************************************************************)
C4_Original ==
    (pc = "done" /\ env.serverUp /\ env.h1Visible /\ env.writable) =>
        /\ exit_status = 0
        /\ NonEmptyOutput

(***************************************************************************)
(* C4 as amended.  Given, in addition, that the automation driver starts,  *)
(* the browser launches, a page opens and browser.close() returns          *)
(* normally, the run eventually terminates, and it terminates with status  *)
(* zero and a non-empty image file at the output path.                     *)
(***************************************************************************)
C4_SuccessTerminates ==
    /\ []((pc = "done" /\ AllOk) => (exit_status = 0 /\ NonEmptyOutput))
    /\ \A n \in 1..MaxRuns :
          (runs = n /\ pc = "sync_playwright" /\ AllOk)
              ~> (runs = n /\ pc = "done" /\ exit_status = 0 /\ NonEmptyOutput)

C4_Witness ==
    /\ pc = "done"
    /\ AllOk
    /\ exit_status = 0
    /\ NonEmptyOutput
    /\ fs[OutputFile] = shot

(***************************************************************************)
(* C5.  The calls of a run happen only in program order, each after the    *)
(* previous one returned normally, one at a time; after the first failing  *)
(* call no further call of the chain is made and the run goes straight to  *)
(* its closed-with-error end.                                              *)
(***************************************************************************)
C5_LinearChain ==
    /\ IsPrefix(trace, Chain)
    /\ IF \E step \in Steps : Failed(step)
         THEN /\ Failed(trace[Len(trace)])
              /\ error = trace[Len(trace)]
              /\ succeeded = { trace[i] : i \in 1..(Len(trace) - 1) }
              /\ pc \in {"exit_ctx", "terminate", "done"}
         ELSE /\ succeeded = { trace[i] : i \in DOMAIN trace }
              /\ error = "none"
              /\ pc \in Steps => (Len(trace) < Len(Chain) /\ pc = Chain[Len(trace) + 1])

\* The navigation failed: the trace stops at goto.
C5_Witness ==
    /\ pc = "done"
    /\ trace = <<"sync_playwright", "launch", "new_page", "goto">>
    /\ error = "goto"
    /\ succeeded = {"sync_playwright", "launch", "new_page"}

(***************************************************************************)
(* C6.  Two runs in succession that both succeed leave exactly one file,   *)
(* at the fixed output path, holding the second run's capture: the second  *)
(* run overwrites the first run's file, and the set of output files after  *)
(* two runs is the set after one.                                          *)
(***************************************************************************)
C6_SecondRunOverwrites ==
    (pc = "done" /\ exit_status = 0 /\ prev.exit = 0) =>
        /\ DOMAIN fs = {OutputFile}
        /\ fs[OutputFile] = shot
        /\ DOMAIN fs = DOMAIN prev.fs

\* The second capture differs from the first: the file holds the second.
C6_Witness ==
    /\ pc = "done" /\ exit_status = 0 /\ prev.exit = 0
    /\ runs = 2
    /\ DOMAIN fs = {OutputFile}
    /\ fs[OutputFile] = shot
    /\ prev.fs[OutputFile] # shot

(***************************************************************************)
(* C7.  Within one run each call is attempted at most once (a failed call  *)
(* is never retried), and a run that reaches the navigation issues exactly *)
(* one navigation request, to http://localhost:8080/.                      *)
(***************************************************************************)
C7_AtMostOnce ==
    /\ \A step \in Steps : Count(step) <= 1
    /\ Len(requests) <= 1
    /\ Attempted("goto") <=> requests = <<"http://localhost:8080/">>

\* The navigation failed and the run is over: one request was issued.
C7_Witness ==
    /\ pc = "done"
    /\ Failed("goto")
    /\ Count("goto") = 1
    /\ requests = <<"http://localhost:8080/">>

(***************************************************************************)
(* C8.  If the browser launch fails, no page is opened, no navigation,     *)
(* element wait or screenshot is attempted, no output file is written, and *)
(* the script terminates with a non-zero status.                           *)
(***************************************************************************)
C8_LaunchFailureIsFatal ==
    Failed("launch") =>
        /\ ~page
        /\ \A step \in {"new_page", "goto", "wait_for_selector", "screenshot", "close"} :
              ~Attempted(step)
        /\ requests = <<>>
        /\ shot = <<>>
        /\ fs = prev.fs
        /\ pc \in {"exit_ctx", "terminate", "done"}
        /\ (pc = "done" => exit_status # 0)

C8_Witness ==
    /\ pc = "done"
    /\ Failed("launch")
    /\ trace = <<"sync_playwright", "launch">>
    /\ exit_status = 1
    /\ browser = "none"

(***************************************************************************)
(* C9 as stated.  browser.close() is reached only after the screenshot was *)
(* written; in a run where new_page, goto, wait_for_selector or screenshot *)
(* fails it is never called, and the exit of the sync_playwright() context *)
(* runs on every exit path of run().                                       *)
(***************************************************************************)
C9_Original ==
    /\ closeCalled => "screenshot" \in succeeded
    /\ (pc = "done" /\ \E step \in {"new_page", "goto", "wait_for_selector", "screenshot"} :
                          Failed(step)) => (~closeCalled /\ ctxExited)
    /\ pc = "done" => ctxExited

(***************************************************************************)
(* C9 as amended.  browser.close() is reached only after the screenshot    *)
(* was written; in a run where new_page, goto, wait_for_selector or        *)
(* screenshot fails it is never called, and the exit of the                *)
(* sync_playwright() context runs on every exit path of run() on which the *)
(* context was entered (it does not run when sync_playwright() itself      *)
(* raises).                                                                *)
(***************************************************************************)
C9_CloseOnlyOnSuccessPath ==
    /\ closeCalled => "screenshot" \in succeeded
    /\ (pc \in {"terminate", "done"}
          /\ \E step \in {"new_page", "goto", "wait_for_selector", "screenshot"} :
                Failed(step)) => (~closeCalled /\ ctxExited)
    /\ pc \in {"terminate", "done"} => (ctxExited <=> "sync_playwright" \in succeeded)

\* The element wait failed: close() was never called, the context exit ran.
C9_Witness ==
    /\ pc = "done"
    /\ Failed("wait_for_selector")
    /\ ~closeCalled
    /\ ctxExited
    /\ driver = "stopped"

(***************************************************************************)
(* C10.  A run that fails at launch, new_page, goto or wait_for_selector   *)
(* leaves the files unchanged: an output file left by an earlier           *)
(* successful run is still there with its earlier content.                 *)
(***************************************************************************)
C10_FailedRunKeepsFiles ==
    (\E step \in {"launch", "new_page", "goto", "wait_for_selector"} : Failed(step)) =>
        /\ fs = prev.fs
        /\ \A p \in DOMAIN prev.fs : p \in DOMAIN fs /\ fs[p] = prev.fs[p]

\* An earlier run succeeded and left its capture; this run failed at the
\* element wait and the capture is still there.
C10_Witness ==
    /\ pc = "done"
    /\ prev.exit = 0
    /\ Failed("wait_for_selector")
    /\ OutputFile \in DOMAIN prev.fs
    /\ Len(prev.fs[OutputFile]) > 0
    /\ NonEmptyOutput
    /\ fs[OutputFile] = prev.fs[OutputFile]

====
